---- MODULE Spec2Model ----
(***************************************************************************)
(* Model of the Android JNI bridge of react-native-enhanced-pdf            *)
(* (android/src/main/cpp/PDFJSI.cpp, PDFJSI.h).                            *)
(*                                                                         *)
(* The program state is the PDFJSI singleton (m_initialized, m_mutex), the *)
(* function-local static putStringMethod of createWritableMap, and, per    *)
(* calling thread, the JNI local-reference frames, the WritableMap being   *)
(* filled and the position in the running native method.  Native methods   *)
(* are entered by Java threads at any time and in any interleaving.        *)
(*                                                                         *)
(* rendered and clearStreak are history variables: they record            *)
(* what the callers have asked for, the code keeps no such state.          *)
(* engineCalls counts the invocations of the external rendering engine     *)
(* made by the bridge since the document's last full clear; no native      *)
(* method makes one.                                                       *)
(***************************************************************************)
EXTENDS Integers, Sequences, FiniteSets, TLC

(* ------------------------------ bounds -------------------------------- *)

MaxPage == 3
MaxUtf == 2
\* the cache budget of the eviction scenario, in KB: two and a half entries
BudgetKb == 250

\* the size the bridge reports for one cached page, in KB ("cacheSizeKb")
EntrySizeKb == 100

Threads == {"ui", "bg"}
Docs == {"docA"}
Pages == 1..MaxPage
\* scale arguments, in quarters (6 is 1.5f): exact as floats
ScaleQuarters == {6}
Qualities == {1, 3}
CacheTypes == {"page", "document", "all"}
Terms == {"term"}
\* the pages whose metrics are asked for
MetricsPages == {1}

Keys == Docs \X Pages \X ScaleQuarters

VARIABLES
    m_initialized,    \* PDFJSI::m_initialized
    m_mutex,          \* PDFJSI::m_mutex: "unlocked" or the thread holding it
    putStringMethod,  \* static jmethodID of createWritableMap: "null" or "cached"
    utfChars,         \* GetStringUTFChars buffers never released (saturates at MaxUtf)
    pc,               \* per thread: position in the native method
    call,             \* per thread: the native method entered and its arguments
    result,           \* per thread: the std::map the native method has built
    frames,           \* per thread: stack of JNI local-reference frames
    wmap,             \* per thread: the WritableMap createWritableMap is filling
    idx,              \* per thread: position of the populate loop in the data
    ret,              \* per thread: the value the native method returned
    rendered,         \* history: per document, the keys rendered since its last clear
    clearStreak,      \* history: per document, clearCacheDirect(doc, "all") calls in a row
    engineCalls       \* history: per key, rendering-engine invocations since the last full clear

vars == <<m_initialized, m_mutex, putStringMethod, utfChars, pc, call, result, frames,
          wmap, idx, ret, rendered, clearStreak, engineCalls>>

shared == <<m_initialized, m_mutex, putStringMethod>>
history == <<rendered, clearStreak, engineCalls>>

(* ----------------------- std::to_string, std::map --------------------- *)

DigitChars == <<"0", "1", "2", "3", "4", "5", "6", "7", "8", "9">>

RECURSIVE NatToString(_)
NatToString(n) ==
    IF n < 10 THEN DigitChars[n + 1]
    ELSE NatToString(n \div 10) \o DigitChars[(n % 10) + 1]

\* std::to_string(int): "%d"
IntToString(n) == IF n < 0 THEN "-" \o NatToString(0 - n) ELSE NatToString(n)

RECURSIVE ZeroPad(_, _)
ZeroPad(s, width) == IF Len(s) >= width THEN s ELSE ZeroPad("0" \o s, width)

\* std::to_string(float): "%f", sign, magnitude, six digits after the point;
\* q is the value in quarters
FloatToString(q) ==
    LET mag == IF q < 0 THEN 0 - q ELSE q
    IN  (IF q < 0 THEN "-" ELSE "")
        \o NatToString(mag \div 4) \o "." \o ZeroPad(NatToString((mag % 4) * 250000), 6)

\* every key the bridge uses, in the order std::map<std::string, ...> iterates
KeyOrder ==
    <<"avgRenderTime", "cacheHitRatio", "cacheSizeKb", "cached", "height",
      "hitRatio", "lastRenderTime", "memoryUsageMB", "pageCacheSize",
      "pageNumber", "renderTimeMs", "rotation", "scale", "success",
      "totalCacheSizeKb", "width">>

EmptyMap == [k \in {} |-> ""]

\* m[k] = v of std::map and putString of WritableMap: insert or overwrite
MapPut(m, k, v) == [x \in (DOMAIN m) \cup {k} |-> IF x = k THEN v ELSE m[x]]

SortedKeys(data) == SelectSeq(KeyOrder, LAMBDA k : k \in DOMAIN data)

(* ------------------------- the result maps ---------------------------- *)

RenderResult(pageNumber, scale) ==
    LET r1 == MapPut(EmptyMap, "success", "true")
        r2 == MapPut(r1, "pageNumber", IntToString(pageNumber))
        r3 == MapPut(r2, "width", "800")
        r4 == MapPut(r3, "height", "1200")
        r5 == MapPut(r4, "scale", FloatToString(scale))
        r6 == MapPut(r5, "cached", "true")
    IN  MapPut(r6, "renderTimeMs", "50")

PageMetricsResult(pageNumber) ==
    LET r1 == MapPut(EmptyMap, "pageNumber", IntToString(pageNumber))
        r2 == MapPut(r1, "width", "800")
        r3 == MapPut(r2, "height", "1200")
        r4 == MapPut(r3, "rotation", "0")
        r5 == MapPut(r4, "scale", "1.0")
        r6 == MapPut(r5, "renderTimeMs", "50")
    IN  MapPut(r6, "cacheSizeKb", "100")

CacheMetricsResult ==
    LET r1 == MapPut(EmptyMap, "pageCacheSize", "5")
        r2 == MapPut(r1, "totalCacheSizeKb", "500")
    IN  MapPut(r2, "hitRatio", "0.85")

PerformanceMetricsResult ==
    LET r1 == MapPut(EmptyMap, "lastRenderTime", "120.0")
        r2 == MapPut(r1, "avgRenderTime", "90.0")
        r3 == MapPut(r2, "cacheHitRatio", "0.85")
    IN  MapPut(r3, "memoryUsageMB", "25.5")

MapOps == {"renderPageDirect", "getPageMetrics", "getCacheMetrics",
           "getPerformanceMetrics"}

\* PDFJSI::getJSIStats
JSIStats(initialized) ==
    "{\"success\":true,\"version\":\"1.0.0\",\"performanceLevel\":\"high\","
    \o "\"directMemoryAccess\":true,\"bridgeOptimized\":true,\"initialized\":"
    \o (IF initialized THEN "true}" ELSE "false}")

\* the external rendering engine (spec 6): the pages whose render fails
EngineFails(p) == p = 2

(* ------------------------ JNI local references ------------------------ *)

\* the frame the VM gives a native method on entry
NativeFrame == <<[cap |-> 16, refs |-> {}]>>

FrameCapacity(data) == Cardinality(DOMAIN data) * 2 + 10

PushLocalFrame(fs, cap) == Append(fs, [cap |-> cap, refs |-> {}])

NewLocalRef(fs, r) == [fs EXCEPT ![Len(fs)].refs = @ \cup {r}]

PopLocalFrameKeepsFrame(fs, res) == NewLocalRef(fs, res)

\* frees every reference of the top frame; result survives as a new
\* reference in the frame below
PopLocalFrame(fs, res) == NewLocalRef(SubSeq(fs, 1, Len(fs) - 1), res)

(* ------------------------------ values -------------------------------- *)

NoCall == [op |-> "none", doc |-> "", page |-> 0, endPage |-> 0, scale |-> 0,
           aux |-> ""]
NoRet == [kind |-> "none", val |-> "", map |-> EmptyMap]

VoidRet == [kind |-> "void", val |-> "", map |-> EmptyMap]
BoolRet(b) == [kind |-> "jboolean", val |-> IF b THEN "JNI_TRUE" ELSE "JNI_FALSE",
               map |-> EmptyMap]
StringRet(s) == [kind |-> "jstring", val |-> s, map |-> EmptyMap]
ArrayRet == [kind |-> "array", val |-> "", map |-> EmptyMap]
MapRet(m) == [kind |-> "map", val |-> "", map |-> m]

KeyOf(c) == <<c.doc, c.page, c.scale>>

\* the calls a Java thread can make
Calls ==
    {[NoCall EXCEPT !.op = o] : o \in {"initializeJSI", "isJSIAvailable",
                                        "cleanupJSI", "getJSIStats"}}
    \cup {[NoCall EXCEPT !.op = "renderPageDirect", !.doc = d, !.page = p, !.scale = s] :
            d \in Docs, p \in Pages, s \in ScaleQuarters}
    \cup {[NoCall EXCEPT !.op = "getPageMetrics", !.doc = d, !.page = p] :
            d \in Docs, p \in MetricsPages}
    \cup {[NoCall EXCEPT !.op = o, !.doc = d] :
            o \in {"getCacheMetrics", "getPerformanceMetrics", "optimizeMemory"},
            d \in Docs}
    \cup {[NoCall EXCEPT !.op = "preloadPagesDirect", !.doc = d, !.page = 1,
                         !.endPage = e] :
            d \in Docs, e \in Pages}
    \cup {[NoCall EXCEPT !.op = "searchTextDirect", !.doc = d, !.aux = s,
                         !.page = 1, !.endPage = MaxPage] :
            d \in Docs, s \in Terms}
    \cup {[NoCall EXCEPT !.op = "clearCacheDirect", !.doc = d, !.aux = ct] :
            d \in Docs, ct \in CacheTypes}
    \cup {[NoCall EXCEPT !.op = "setRenderQuality", !.doc = d, !.page = q] :
            d \in Docs, q \in Qualities}

Min(a, b) == IF a < b THEN a ELSE b

\* LOGD(..., env->GetStringUTFChars(s, nullptr)): n buffers, none released
LogStrings(n) == Min(utfChars + n, MaxUtf)

(* ------------------------------- Init --------------------------------- *)

Init ==
    /\ m_initialized = FALSE
    /\ m_mutex = "unlocked"
    /\ putStringMethod = "null"
    /\ utfChars = 0
    /\ pc = [t \in Threads |-> "idle"]
    /\ call = [t \in Threads |-> NoCall]
    /\ result = [t \in Threads |-> EmptyMap]
    /\ frames = [t \in Threads |-> <<>>]
    /\ wmap = [t \in Threads |-> EmptyMap]
    /\ idx = [t \in Threads |-> 0]
    /\ ret = [t \in Threads |-> NoRet]
    /\ rendered = [d \in Docs |-> {}]
    /\ clearStreak = [d \in Docs |-> 0]
    /\ engineCalls = [k \in Keys |-> 0]

(* ------------------------- entering and leaving ----------------------- *)

\* thread t enters native method op with the arguments of c: every thread
\* can enter every native method
Enter(t, c, op) ==
    /\ pc[t] = "idle"
    /\ c.op = op
    /\ call' = [call EXCEPT ![t] = c]

\* the native method returns r
Finish(t, r) ==
    /\ pc' = [pc EXCEPT ![t] = "returned"]
    /\ ret' = [ret EXCEPT ![t] = r]

\* the Java caller takes the result; the VM frees the native frame
Return(t) ==
    /\ pc[t] = "returned"
    /\ pc' = [pc EXCEPT ![t] = "idle"]
    /\ call' = [call EXCEPT ![t] = NoCall]
    /\ result' = [result EXCEPT ![t] = EmptyMap]
    /\ frames' = [frames EXCEPT ![t] = <<>>]
    /\ wmap' = [wmap EXCEPT ![t] = EmptyMap]
    /\ idx' = [idx EXCEPT ![t] = 0]
    /\ ret' = [ret EXCEPT ![t] = NoRet]
    /\ UNCHANGED <<shared, utfChars, history>>

(* --------------------------- native methods --------------------------- *)
(* A method without a loop runs from entry to return in one step: it       *)
(* reads or writes shared state at most once.                              *)

InitializeJSI(t, c) ==
    /\ Enter(t, c, "initializeJSI")
    /\ m_initialized' = TRUE
    /\ frames' = [frames EXCEPT ![t] = NativeFrame]
    /\ Finish(t, VoidRet)
    /\ UNCHANGED <<m_mutex, putStringMethod, utfChars, result, wmap, idx, history>>

IsJSIAvailable(t, c) ==
    /\ Enter(t, c, "isJSIAvailable")
    /\ frames' = [frames EXCEPT ![t] = NativeFrame]
    /\ Finish(t, BoolRet(m_initialized))
    /\ UNCHANGED <<shared, utfChars, result, wmap, idx, history>>

CleanupJSIResets(t, c) ==
    /\ Enter(t, c, "cleanupJSI")
    /\ m_initialized' = FALSE
    /\ frames' = [frames EXCEPT ![t] = NativeFrame]
    /\ Finish(t, VoidRet)
    /\ UNCHANGED <<m_mutex, putStringMethod, utfChars, result, wmap, idx, history>>

CleanupJSI(t, c) ==
    /\ Enter(t, c, "cleanupJSI")
    /\ frames' = [frames EXCEPT ![t] = NativeFrame]
    /\ Finish(t, VoidRet)
    /\ UNCHANGED <<shared, utfChars, result, wmap, idx, history>>

GetJSIStats(t, c) ==
    /\ Enter(t, c, "getJSIStats")
    /\ frames' = [frames EXCEPT ![t] = NewLocalRef(NativeFrame, <<"stats", 0>>)]
    /\ Finish(t, StringRet(JSIStats(m_initialized)))
    /\ UNCHANGED <<shared, utfChars, result, wmap, idx, history>>

\* createWritableMap(env, data) up to the test of the static method id:
\* PushLocalFrame, FindClass(Arguments), Arguments.createMap(),
\* if (!putStringMethod).  Everything before the test is local to the thread.
CwmEnter(t, data) ==
    /\ result' = [result EXCEPT ![t] = data]
    /\ frames' = [frames EXCEPT ![t] =
                    NewLocalRef(
                      NewLocalRef(PushLocalFrame(NativeFrame, FrameCapacity(data)),
                                  <<"mapClass", 0>>),
                      <<"map", 0>>)]
    /\ wmap' = [wmap EXCEPT ![t] = EmptyMap]
    /\ IF putStringMethod = "null"
       THEN /\ pc' = [pc EXCEPT ![t] = "cwm_lookup"]
            /\ UNCHANGED idx
       ELSE /\ pc' = [pc EXCEPT ![t] = "cwm_loop"]
            /\ idx' = [idx EXCEPT ![t] = 1]

\* the four methods that build a std::map and hand it to createWritableMap
RenderPageDirect(t, c) ==
    /\ Enter(t, c, "renderPageDirect")
    /\ utfChars' = LogStrings(1)
    /\ CwmEnter(t, RenderResult(c.page, c.scale))
    /\ UNCHANGED <<shared, ret, history>>

GetPageMetrics(t, c) ==
    /\ Enter(t, c, "getPageMetrics")
    /\ utfChars' = LogStrings(1)
    /\ CwmEnter(t, PageMetricsResult(c.page))
    /\ UNCHANGED <<shared, ret, history>>

GetCacheMetrics(t, c) ==
    /\ Enter(t, c, "getCacheMetrics")
    /\ utfChars' = LogStrings(1)
    /\ CwmEnter(t, CacheMetricsResult)
    /\ UNCHANGED <<shared, ret, history>>

GetPerformanceMetrics(t, c) ==
    /\ Enter(t, c, "getPerformanceMetrics")
    /\ utfChars' = LogStrings(1)
    /\ CwmEnter(t, PerformanceMetricsResult)
    /\ UNCHANGED <<shared, ret, history>>

PreloadPagesDirect(t, c) ==
    /\ Enter(t, c, "preloadPagesDirect")
    /\ utfChars' = LogStrings(1)
    /\ frames' = [frames EXCEPT ![t] = NativeFrame]
    /\ Finish(t, BoolRet(TRUE))
    /\ UNCHANGED <<shared, result, wmap, idx, history>>

ClearCacheDirect(t, c) ==
    /\ Enter(t, c, "clearCacheDirect")
    /\ utfChars' = LogStrings(2)
    /\ frames' = [frames EXCEPT ![t] = NativeFrame]
    /\ Finish(t, BoolRet(TRUE))
    /\ IF c.aux = "all"
       THEN /\ rendered' = [rendered EXCEPT ![c.doc] = {}]
            /\ clearStreak' = [clearStreak EXCEPT ![c.doc] = Min(@ + 1, 2)]
            /\ engineCalls' = [k \in Keys |-> IF k[1] = c.doc THEN 0 ELSE engineCalls[k]]
       ELSE /\ clearStreak' = [clearStreak EXCEPT ![c.doc] = 0]
            /\ UNCHANGED <<rendered, engineCalls>>
    /\ UNCHANGED <<shared, result, wmap, idx>>

OptimizeMemory(t, c) ==
    /\ Enter(t, c, "optimizeMemory")
    /\ utfChars' = LogStrings(1)
    /\ frames' = [frames EXCEPT ![t] = NativeFrame]
    /\ Finish(t, BoolRet(TRUE))
    /\ clearStreak' = [clearStreak EXCEPT ![c.doc] = 0]
    /\ UNCHANGED <<shared, result, wmap, idx, rendered, engineCalls>>

SearchTextDirect(t, c) ==
    /\ Enter(t, c, "searchTextDirect")
    /\ utfChars' = LogStrings(2)
    /\ frames' = [frames EXCEPT ![t] =
                    NewLocalRef(NewLocalRef(NativeFrame, <<"arrayClass", 0>>),
                                <<"array", 0>>)]
    /\ Finish(t, ArrayRet)
    /\ UNCHANGED <<shared, result, wmap, idx, history>>

SetRenderQualityClears(t, c) ==
    /\ Enter(t, c, "setRenderQuality")
    /\ utfChars' = LogStrings(1)
    /\ frames' = [frames EXCEPT ![t] = NativeFrame]
    /\ Finish(t, BoolRet(TRUE))
    /\ rendered' = [rendered EXCEPT ![c.doc] = {}]
    /\ UNCHANGED <<shared, result, wmap, idx, clearStreak, engineCalls>>

SetRenderQuality(t, c) ==
    /\ Enter(t, c, "setRenderQuality")
    /\ utfChars' = LogStrings(1)
    /\ frames' = [frames EXCEPT ![t] = NativeFrame]
    /\ Finish(t, BoolRet(TRUE))
    /\ UNCHANGED <<shared, result, wmap, idx, history>>

(* -------------------------- createWritableMap ------------------------- *)

NextIdxStuck(i) == i

\* the range-for over the std::map advances to the next pair
NextIdx(i) == i + 1

\* FindClass(WritableMap); putStringMethod = GetMethodID(...)
CwmLookupMethod(t) ==
    /\ pc[t] = "cwm_lookup"
    /\ frames' = [frames EXCEPT ![t] = NewLocalRef(@, <<"writableMapClass", 0>>)]
    /\ putStringMethod' = "cached"
    /\ pc' = [pc EXCEPT ![t] = "cwm_loop"]
    /\ idx' = [idx EXCEPT ![t] = 1]
    /\ UNCHANGED <<m_initialized, m_mutex, utfChars, call, result, wmap, ret, history>>

\* one pass of the loop: two NewStringUTF and putString(key, value)
CwmPopulate(t) ==
    /\ pc[t] = "cwm_loop"
    /\ LET data == result[t]
           keys == SortedKeys(data)
           i == idx[t]
       IN  /\ i <= Len(keys)
           /\ frames' = [frames EXCEPT ![t] =
                           NewLocalRef(NewLocalRef(@, <<"key", i>>), <<"value", i>>)]
           /\ wmap' = [wmap EXCEPT ![t] = MapPut(@, keys[i], data[keys[i]])]
           /\ idx' = [idx EXCEPT ![t] = NextIdx(i)]
    /\ UNCHANGED <<shared, utfChars, pc, call, result, ret, history>>

\* PopLocalFrame(map); the native method returns the map
CwmExit(t) ==
    /\ pc[t] = "cwm_loop"
    /\ idx[t] > Len(SortedKeys(result[t]))
    /\ frames' = [frames EXCEPT ![t] = PopLocalFrame(@, <<"map", 0>>)]
    /\ Finish(t, MapRet(wmap[t]))
    /\ IF call[t].op = "renderPageDirect"
       THEN /\ rendered' = [rendered EXCEPT ![call[t].doc] = @ \cup {KeyOf(call[t])}]
            /\ clearStreak' = [clearStreak EXCEPT ![call[t].doc] = 0]
       ELSE UNCHANGED <<rendered, clearStreak>>
    /\ UNCHANGED <<shared, utfChars, call, result, wmap, idx, engineCalls>>

(* ------------------------------- Next --------------------------------- *)

\* thread t enters a native method
Invoke(t) ==
    \E c \in Calls :
        \/ InitializeJSI(t, c)
        \/ IsJSIAvailable(t, c)
        \/ CleanupJSI(t, c)
        \/ GetJSIStats(t, c)
        \/ RenderPageDirect(t, c)
        \/ GetPageMetrics(t, c)
        \/ GetCacheMetrics(t, c)
        \/ GetPerformanceMetrics(t, c)
        \/ PreloadPagesDirect(t, c)
        \/ ClearCacheDirect(t, c)
        \/ OptimizeMemory(t, c)
        \/ SearchTextDirect(t, c)
        \/ SetRenderQuality(t, c)

\* the steps of createWritableMap in the native method thread t has entered
Step(t) ==
    \/ CwmLookupMethod(t)
    \/ CwmPopulate(t)
    \/ CwmExit(t)

Next ==
    \E t \in Threads :
        \/ Invoke(t)
        \/ Step(t)
        \/ Return(t)

Spec == Init /\ [][Next]_vars

\* a thread inside a native method keeps running it
FairSpec == Spec /\ \A t \in Threads : WF_vars(Step(t))

(* ======================= the claims, C1 to C10 ======================== *)

Returned(t, op) == pc[t] = "returned" /\ call[t].op = op
InFlight(t, op) == pc[t] \in {"cwm_lookup", "cwm_loop"} /\ call[t].op = op
\* the step in which thread t enters the map-building method op and builds
\* its std::map
Builds(t, op) ==
    pc[t] = "idle" /\ pc'[t] \in {"cwm_lookup", "cwm_loop"} /\ call'[t].op = op
\* the step in which thread t runs the loop-free method op from entry to return
Runs(t, op) == pc[t] = "idle" /\ pc'[t] = "returned" /\ call'[t].op = op

\* C1: every bridge operation that returns a structured map returns a map
\* with a "success" field.  Stated as the claim; the code violates it.
C1_MapsCarrySuccess ==
    \A t \in Threads :
        (pc[t] = "returned" /\ ret[t].kind = "map") => "success" \in DOMAIN ret[t].map

\* C2: single-flight.  When a caller asks for a render of a key while another
\* caller is inside a render of the same key that no completed render has
\* produced yet, the rendering engine has been invoked exactly once for the
\* key and both callers get the same result.  Stated as the claim; the
\* code violates it.
C2_SingleFlight ==
    [][\A t, u \in Threads :
         (/\ t # u
          /\ Builds(t, "renderPageDirect")
          /\ InFlight(u, "renderPageDirect")
          /\ KeyOf(call[u]) = KeyOf(call'[t])
          /\ KeyOf(call[u]) \notin rendered[call[u].doc])
         => (/\ engineCalls'[KeyOf(call[u])] = 1
             /\ result'[t] = result[u])]_vars

\* C3: the total the cache reports is the byte sum of its live entries (the
\* entries rendered since the last clear, or some of them after evictions)
\* and stays within the budget.  Stated as the claim; the code violates it.
C3_Accounting ==
    [][\A t \in Threads :
         Builds(t, "getCacheMetrics")
         => \E n \in 0..Cardinality(rendered[call'[t].doc]) :
              /\ n * EntrySizeKb <= BudgetKb
              /\ result'[t]["pageCacheSize"] = IntToString(n)
              /\ result'[t]["totalCacheSizeKb"] = IntToString(n * EntrySizeKb)]_vars

\* C4: a render request is reported as cached only when an entry for its key
\* exists at the time of the call: the first request for a key, and the
\* first after the key was invalidated, is a miss (a request that joins a
\* render in flight aside).  Stated as the claim; the code violates it.
C4_CachedOnlyIfLive ==
    [][\A t \in Threads :
         (/\ Builds(t, "renderPageDirect")
          /\ \A u \in Threads \ {t} :
               ~(InFlight(u, "renderPageDirect") /\ KeyOf(call[u]) = KeyOf(call'[t])))
         => (result'[t]["cached"] = "true"
             => KeyOf(call'[t]) \in rendered[call'[t].doc])]_vars

\* C5: after clearCacheDirect(doc, "all") twice in a row the cache metrics of
\* the document show no live entry, and every clear returns success.
\* Stated as the claim; the code violates it.
C5_ClearTwiceEmpty ==
    [][\A t \in Threads :
         /\ Runs(t, "clearCacheDirect") => ret'[t] = BoolRet(TRUE)
         /\ (Builds(t, "getCacheMetrics") /\ clearStreak[call'[t].doc] = 2)
            => (/\ result'[t]["pageCacheSize"] = "0"
                /\ result'[t]["totalCacheSizeKb"] = "0")]_vars

\* C6: eviction keeps the cache within its budget.  With a budget of two and
\* a half entries, once three different keys have been rendered the cache
\* holds at most the two entries that fit (the insert of the third evicted
\* the least recently used one).  Stated as the claim; the code violates it.
C6_EvictsToBudget ==
    [][\A t \in Threads :
         (Builds(t, "getCacheMetrics") /\ Cardinality(rendered[call'[t].doc]) >= 3)
         => \E n \in 0..(BudgetKb \div EntrySizeKb) :
              /\ result'[t]["pageCacheSize"] = IntToString(n)
              /\ result'[t]["totalCacheSizeKb"] = IntToString(n * EntrySizeKb)]_vars

\* C7: preload over a range in which one page's render fails still renders
\* every other page of the range, and reports partial success rather than
\* success.  Stated as the claim; the code violates it.
C7_PreloadPartial ==
    [][\A t \in Threads :
         Runs(t, "preloadPagesDirect")
         => LET c == call'[t]
                range == c.page..c.endPage
            IN  /\ \A p \in range :
                     ~EngineFails(p)
                     => \E s \in ScaleQuarters : engineCalls'[<<c.doc, p, s>>] >= 1
                /\ (\E p \in range : EngineFails(p)) => ret'[t] # BoolRet(TRUE)]_vars

\* C8: setRenderQuality returns success and leaves everything else as it
\* was: the initialization flag, the cached method id, what has been
\* rendered and cleared, and every other thread.
C8_SetRenderQualityFrame ==
    [][\A t \in Threads :
         Runs(t, "setRenderQuality")
         => /\ ret'[t] = BoolRet(TRUE)
            /\ UNCHANGED <<shared, rendered, clearStreak, engineCalls>>
            /\ \A u \in Threads \ {t} :
                 UNCHANGED <<pc[u], call[u], result[u], frames[u], wmap[u], idx[u],
                             ret[u]>>]_vars

\* C8 witness: setRenderQuality has returned while rendered entries exist.
C8_Witness ==
    \E t \in Threads :
        Returned(t, "setRenderQuality") /\ rendered[call[t].doc] # {}

\* C9: no bridge operation blocks: under any interleaving every operation a
\* thread has started returns, and the mutex of the singleton is never held.
C9_NoBlocking ==
    /\ \A t \in Threads : (pc[t] \notin {"idle", "returned"}) ~> (pc[t] = "returned")
    /\ [](m_mutex = "unlocked")

\* C9 witness: one thread has returned from a map-building operation while
\* the other is in the middle of one.
C9_Witness ==
    \E t, u \in Threads :
        /\ pc[t] = "returned" /\ call[t].op \in MapOps
        /\ pc[u] = "cwm_loop" /\ idx[u] > 1

\* C10: createWritableMap pushes one local frame and pops it: inside the
\* call the thread has the native frame and the pushed one, within its
\* capacity; on return only the native frame is left, holding the returned
\* map as its only reference, the loop has made one putString per pair and
\* the map holds exactly the pairs of the data.
C10_FramePairing ==
    \A t \in Threads :
        /\ (pc[t] \in {"cwm_lookup", "cwm_loop"})
           => (/\ Len(frames[t]) = 2
               /\ frames[t][1].refs = {}
               /\ Cardinality(frames[t][2].refs) <= frames[t][2].cap)
        /\ (pc[t] = "returned" /\ call[t].op \in MapOps)
           => (/\ Len(frames[t]) = 1
               /\ frames[t][1].refs = {<<"map", 0>>}
               /\ idx[t] - 1 = Cardinality(DOMAIN result[t])
               /\ ret[t] = MapRet(result[t]))

\* C10 witness: a render has returned its seven-pair map through
\* createWritableMap.
C10_Witness ==
    \E t \in Threads :
        /\ Returned(t, "renderPageDirect")
        /\ Cardinality(DOMAIN ret[t].map) = 7
        /\ Len(frames[t]) = 1

\* the last n characters of the string s
Suffix(s, n) == SubSeq(s, Len(s) - n + 1, Len(s))

\* the value of the last field, "initialized", of the JSON text getJSIStats
\* returns, as a reader of the text finds it
InitializedField(s) ==
    LET key == "\"initialized\":"
        ends(v) == Len(s) >= Len(key) + Len(v) + 1
                   /\ Suffix(s, Len(key) + Len(v) + 1) = key \o v \o "}"
    IN  IF ends("true") THEN "true" ELSE IF ends("false") THEN "false" ELSE "none"

\* C11: the initialization flag is monotonic.  It is false at the start;
\* initializeJSI leaves it true; once true it stays true; no step other
\* than an initializeJSI changes it (cleanupJSI included); isJSIAvailable
\* returns the flag and the "initialized" field of getJSIStats spells it.
C11_InitFlagMonotonic ==
    /\ m_initialized = FALSE
    /\ [][/\ m_initialized => m_initialized'
          /\ (m_initialized' # m_initialized)
             => \E t \in Threads : Runs(t, "initializeJSI")
          /\ \A t \in Threads :
               /\ Runs(t, "initializeJSI") => m_initialized' = TRUE
               /\ Runs(t, "isJSIAvailable")
                  => (/\ ret'[t].kind = "jboolean"
                      /\ ret'[t].val = (IF m_initialized THEN "JNI_TRUE" ELSE "JNI_FALSE"))
               /\ Runs(t, "getJSIStats")
                  => (/\ ret'[t].kind = "jstring"
                      /\ InitializedField(ret'[t].val)
                           = (IF m_initialized THEN "true" ELSE "false"))]_vars

\* C11 witness: after an initializeJSI and a cleanupJSI have both returned
\* the flag is true.
C11_Witness ==
    \E t, u \in Threads :
        /\ Returned(t, "cleanupJSI")
        /\ Returned(u, "initializeJSI")
        /\ m_initialized = TRUE

====
